---- MODULE Spec2Model ----
(***************************************************************************)
(* StarryPad Simon Says (src/server.py, src/main.py).                      *)
(*                                                                         *)
(* The game engine (game_thread) is one thread that owns the game state,   *)
(* reads commands from the queue ui_to_game, reads pad presses from the    *)
(* MIDI input port and puts events on the queue game_events.  The web side *)
(* (websocket_handler, broadcast, game_event_forwarder) runs as asyncio    *)
(* tasks of one event loop.                                                *)
(*                                                                         *)
(* Time is counted in ticks of 50 ms, the greatest common divisor of every *)
(* duration of the source.  time.sleep(d) is sleepLeft = d/50ms, counted   *)
(* down by Tick; the engine takes its next step when the sleep is over.    *)
(***************************************************************************)
EXTENDS Integers, Sequences, FiniteSets, TLC

\* ---------------------------------------------------------------- bounds
MaxInputs  == 4     \* MIDI messages and start/stop commands in one run
NumPads    == 2     \* pads (of the 16) that random.choice and the player use
NumObservers == 2   \* observer connections in one run
MaxEvents  == 3     \* events the engine emits in a run of the web side
MaxSubmits == 1     \* submit_name messages in one run of the web side
MaxSaves   == 3     \* add_score calls in one run of the leaderboard store
MaxScoreSubmits == 3  \* submit_name messages in one run of the submissions

\* ------------------------------------------------------ program constants
NOTE_MIN   == 31
NOTE_MAX   == 46
TOP_N      == 5
NAME_MAX   == 20    \* name[:20]
DEBOUNCE_T == 7     \* DEBOUNCE_S = 0.35 s
ON_T       == 9     \* light_pad duration_s = 0.45 s
GAP_T      == 5     \* light_pad trailing sleep 0.25 s
ACK_T      == 3     \* acknowledgement blink 0.15 s
NEXT_T     == 16    \* pause before the next round 0.8 s
POLL_T     == 1     \* idle poll interval 0.05 s

PLAYABLE_NOTES == NOTE_MIN .. NOTE_MAX
\* the notes the bounded model draws from PLAYABLE_NOTES
Pads == {n \in PLAYABLE_NOTES : n < NOTE_MIN + NumPads}

\* Python's None: where a note or pad index is expected, and where a command is
None  == -1
NoCmd == "None"

VARIABLES
  \* game_thread locals (server.py 89-99)
  inport, outport, sequence, score, phase, expected_index,
  last_note, lastAge, stop_requested, midi_ok,
  \* position of the engine thread
  pc, ret, playIdx, curMsg, sleepLeft,
  \* queues and device
  ui_to_game, nCmds, game_events, evHead, portBuf, pressLog, sincePress,
  deviceIn, deviceOut,
  \* leaderboard file
  lbFile,
  \* web side: app["clients"], the connections, what each observer received,
  \* the forwarder task and the fan-out of each connection handler
  clients, conn, received, fpc, fanEv, fanSnap, fanLeft, hLeft, hPayload, submitLog

engineVars == <<inport, outport, sequence, score, phase, expected_index,
                last_note, lastAge, stop_requested, midi_ok,
                pc, ret, playIdx, curMsg, sleepLeft>>
vars == <<inport, outport, sequence, score, phase, expected_index,
          last_note, lastAge, stop_requested, midi_ok,
          pc, ret, playIdx, curMsg, sleepLeft,
          ui_to_game, nCmds, game_events, evHead, portBuf, pressLog, sincePress,
          deviceIn, deviceOut, lbFile,
          clients, conn, received, fpc, fanEv, fanSnap, fanLeft, hLeft, hPayload,
          submitLog>>
webVars == <<clients, conn, received, fpc, fanEv, fanSnap, fanLeft, hLeft, hPayload,
             submitLog>>

Min(a, b) == IF a < b THEN a ELSE b
Max(a, b) == IF a > b THEN a ELSE b
Range(s) == {s[i] : i \in DOMAIN s}

\* ------------------------------------------------- leaderboard persistence
\* The file is a record [kind, data]:
\*   "missing"  no file;  "garbage" not JSON;  "nonlist" JSON but not a list;
\*   "baditems" a JSON list whose items are not objects (e.g. [1, 2]);
\*   "list"     a list of {"name", "score"} objects, in data.
FileMissing  == [kind |-> "missing",  data |-> <<>>]
FileGarbage  == [kind |-> "garbage",  data |-> <<>>]
FileNonList  == [kind |-> "nonlist",  data |-> <<>>]
FileBadItems == [kind |-> "baditems", data |-> <<>>]
FileList(b)  == [kind |-> "list",     data |-> b]

\* e.get("score", 0): the sort key of an entry; an entry of the file may have
\* no "score"
ScoreOf(e) == IF "score" \in DOMAIN e THEN e.score ELSE 0

\* a sort in which a new entry goes before the entries of equal score
RECURSIVE InsertDesc_NewFirst(_, _)
InsertDesc_NewFirst(e, s) ==
  IF s = <<>> THEN <<e>>
  ELSE IF ScoreOf(Head(s)) > ScoreOf(e)
    THEN <<Head(s)>> \o InsertDesc_NewFirst(e, Tail(s))
  ELSE <<e>> \o s

\* sorted(..., reverse=True) is stable: an entry goes after every entry whose
\* score is greater or equal.
RECURSIVE InsertDesc(_, _)
InsertDesc(e, s) ==
  IF s = <<>> THEN <<e>>
  ELSE IF ScoreOf(Head(s)) >= ScoreOf(e)
    THEN <<Head(s)>> \o InsertDesc(e, Tail(s))
  ELSE <<e>> \o s

RECURSIVE SortDesc(_)
SortDesc(s) ==
  IF s = <<>> THEN <<>>
  ELSE InsertDesc(s[Len(s)], SortDesc(SubSeq(s, 1, Len(s) - 1)))

Take(s, n) == SubSeq(s, 1, Min(n, Len(s)))

\* load_leaderboard raises (AttributeError from e.get) on a list of non-objects;
\* JSONDecodeError and OSError are the only exceptions it catches.
LoadRaises(f) == f.kind = "baditems"

load_leaderboard(f) ==
  IF f.kind = "list" THEN Take(SortDesc(f.data), TOP_N) ELSE <<>>

is_top_score(f, s) ==
  LET board == load_leaderboard(f) IN
  IF Len(board) < TOP_N THEN s > 0 ELSE s > ScoreOf(board[Len(board)])

\* add_score raises: load_leaderboard raises, or the sort of line 64 reads
\* e["score"] of an entry that has none (KeyError)
AddRaises(f) ==
  \/ LoadRaises(f)
  \/ \E i \in DOMAIN load_leaderboard(f) : "score" \notin DOMAIN load_leaderboard(f)[i]

\* ------------------------------------------------------------ MIDI helpers
note_to_pad_index(note) ==
  IF NOTE_MIN <= note /\ note <= NOTE_MAX THEN note - NOTE_MIN ELSE None

\* The messages the device sends: a press of a pad, and the release of a pad
\* (note_on with velocity 0).
DeviceMsgs ==
  {[note |-> n, velocity |-> 127] : n \in Pads}
    \cup {[note |-> NOTE_MIN, velocity |-> 0]}

\* lines 226-231: a note_on with velocity above 0 of a note that is a pad
IsPress(m) == m.velocity > 0 /\ note_to_pad_index(m.note) # None

\* ------------------------------------------------------------------ events
EvPhase(p)       == [type |-> "phase", phase |-> p]
EvScore(s)       == [type |-> "score", score |-> s]
EvLight(i)       == [type |-> "light", pad |-> i]
EvUnlight(i)     == [type |-> "unlight", pad |-> i]
EvCorrect(i)     == [type |-> "correct", pad |-> i]
EvWrong(i)       == [type |-> "wrong", pad |-> i]
EvGameover(s, t) == [type |-> "gameover", score |-> s, is_top5 |-> t]
EvBoard(b)       == [type |-> "leaderboard", board |-> b]
EvError(t)       == [type |-> "error", text |-> t]

\* emit: game_events.put(ev), for the events of one step in order
emit(evs) == game_events' = game_events \o evs

\* drain_commands: empties the queue and returns the last command, or None
drain_commands(q) == IF q = <<>> THEN NoCmd ELSE q[Len(q)]

\* ------------------------------------------------------------- game thread
\* try_connect_midi that never looks for the device again
try_connect_midi_GivesUp ==
  [midi_ok |-> midi_ok, inport |-> inport, outport |-> outport]

\* try_connect_midi: the ports and midi_ok after the call
try_connect_midi ==
  IF midi_ok THEN [midi_ok |-> TRUE, inport |-> inport, outport |-> outport]
  ELSE IF ~deviceIn THEN [midi_ok |-> FALSE, inport |-> inport, outport |-> outport]
  ELSE [midi_ok |-> TRUE, inport |-> TRUE, outport |-> deviceOut]

\* go_idle, called after the events pre of the same step.  When
\* load_leaderboard raises, the exception leaves the loop: inside the try
\* block the handler emits an error and the ports are closed; the call at
\* line 193 is outside the try block and the thread just ends.
go_idle(pre, nextPc, nextSleep, inTry, inp, outp) ==
  /\ phase' = "idle"
  /\ sequence' = <<>>
  /\ score' = 0
  /\ stop_requested' = FALSE
  /\ IF LoadRaises(lbFile)
       THEN /\ emit(pre \o <<EvPhase("idle"), EvScore(0)>>
                      \o (IF inTry THEN <<EvError("Error")>> ELSE <<>>))
            /\ pc' = "dead"
            /\ sleepLeft' = 0
            /\ inport' = (IF inTry THEN FALSE ELSE inp)
            /\ outport' = (IF inTry THEN FALSE ELSE outp)
       ELSE /\ emit(pre \o <<EvPhase("idle"), EvScore(0),
                             EvBoard(load_leaderboard(lbFile))>>)
            /\ pc' = nextPc
            /\ sleepLeft' = nextSleep
            /\ inport' = inp
            /\ outport' = outp

\* start_round with the level (len(sequence)) stored as the score
start_round_LevelAsScore(seq0, note, caller) ==
  /\ sequence' = Append(seq0, note)
  /\ score' = Len(sequence')
  /\ phase' = "playing"
  /\ expected_index' = 0
  /\ emit(<<EvScore(Len(sequence')), EvPhase("playing")>>)
  /\ pc' = "play"
  /\ playIdx' = 1
  /\ ret' = caller
  /\ sleepLeft' = 0

\* start_round up to the playback loop (lines 161-167), from the sequence seq0
start_round(seq0, note, caller) ==
  /\ sequence' = Append(seq0, note)
  /\ score' = Len(sequence') - 1
  /\ phase' = "playing"
  /\ expected_index' = 0
  /\ emit(<<EvScore(Len(sequence') - 1), EvPhase("playing")>>)
  /\ pc' = "play"
  /\ playIdx' = 1
  /\ ret' = caller
  /\ sleepLeft' = 0

\* where start_round returns to after go_idle: `continue` of the main loop
\* (line 215), or `break` of the press loop and the sleep of line 267
IdleReturnSleep == IF ret = "main" THEN 0 ELSE POLL_T

\* lines 192-193: connect on startup, go_idle
Boot ==
  /\ pc = "boot"
  /\ LET c == try_connect_midi IN
       /\ midi_ok' = c.midi_ok
       /\ go_idle(<<>>, "loop", 0, FALSE, c.inport, c.outport)
  /\ UNCHANGED <<expected_index, last_note, lastAge, ret, playIdx, curMsg,
                 ui_to_game, nCmds, evHead, portBuf, pressLog, sincePress,
                 deviceIn, deviceOut, lbFile, webVars>>

\* one pass of the main loop, lines 197-223, up to the press loop
MainLoop ==
  /\ pc = "loop" /\ sleepLeft = 0
  /\ LET cmd == drain_commands(ui_to_game) IN
     /\ ui_to_game' = <<>>
     /\ IF cmd = "stop" /\ phase # "idle"
          THEN /\ go_idle(<<>>, "loop", 0, TRUE, inport, outport)
               /\ UNCHANGED <<midi_ok, expected_index, ret, playIdx>>
        ELSE IF cmd = "start" /\ phase \in {"idle", "gameover"}
          THEN LET c == try_connect_midi IN
               /\ midi_ok' = c.midi_ok
               /\ IF ~c.midi_ok
                    THEN /\ go_idle(<<EvError("No StarryPad found")>>, "loop", 0,
                                    TRUE, c.inport, c.outport)
                         /\ UNCHANGED <<expected_index, ret, playIdx>>
                    ELSE /\ stop_requested' = FALSE
                         /\ inport' = c.inport
                         /\ outport' = c.outport
                         /\ \E note \in Pads : start_round(<<>>, note, "main")
        ELSE IF phase \in {"idle", "gameover"} \/ ~inport
          THEN /\ pc' = "loop"
               /\ sleepLeft' = POLL_T
               /\ UNCHANGED <<inport, outport, sequence, score, phase,
                              expected_index, stop_requested, midi_ok,
                              ret, playIdx, game_events>>
        ELSE /\ pc' = "poll"
             /\ UNCHANGED <<inport, outport, sequence, score, phase,
                            expected_index, stop_requested, midi_ok,
                            ret, playIdx, sleepLeft, game_events>>
  /\ UNCHANGED <<last_note, lastAge, curMsg, nCmds, evHead, portBuf, pressLog, sincePress,
                 deviceIn, deviceOut, lbFile, webVars>>

\* the playback without the check for a pending stop
PlayCheckpoint_IgnoresStop ==
  /\ pc = "play" /\ sleepLeft = 0
  /\ ui_to_game' = <<>>
  /\ emit(<<EvLight(note_to_pad_index(sequence[playIdx]))>>)
  /\ pc' = "lit"
  /\ sleepLeft' = ON_T
  /\ UNCHANGED <<inport, outport, sequence, score, phase, stop_requested,
                 playIdx, expected_index, last_note, lastAge, midi_ok, ret,
                 curMsg, nCmds, evHead, portBuf, pressLog, sincePress,
                 deviceIn, deviceOut, lbFile, webVars>>

\* the checkpoint before pad playIdx of the playback (lines 169-174) and the
\* first half of light_pad (lines 131-139); outport.send faults are swallowed
PlayCheckpoint ==
  /\ pc = "play" /\ sleepLeft = 0
  /\ LET cmd == drain_commands(ui_to_game) IN
     /\ ui_to_game' = <<>>
     /\ IF cmd = "stop"
          THEN /\ go_idle(<<>>, "loop", IdleReturnSleep, TRUE, inport, outport)
               /\ UNCHANGED <<playIdx>>
          ELSE /\ emit(<<EvLight(note_to_pad_index(sequence[playIdx]))>>)
               /\ pc' = "lit"
               /\ sleepLeft' = ON_T
               /\ UNCHANGED <<inport, outport, sequence, score, phase,
                              stop_requested, playIdx>>
  /\ UNCHANGED <<expected_index, last_note, lastAge, midi_ok, ret, curMsg,
                 nCmds, evHead, portBuf, pressLog, sincePress,
                 deviceIn, deviceOut, lbFile, webVars>>

\* a light_pad that gives up its pulse when a stop is pending
PlayUnlight_AbortsOnStop ==
  /\ pc = "lit" /\ sleepLeft = 0
  /\ IF "stop" \in Range(ui_to_game)
       THEN /\ ui_to_game' = <<>>
            /\ go_idle(<<>>, "loop", IdleReturnSleep, TRUE, inport, outport)
            /\ UNCHANGED playIdx
       ELSE /\ emit(<<EvUnlight(note_to_pad_index(sequence[playIdx]))>>)
            /\ sleepLeft' = GAP_T
            /\ IF playIdx < Len(sequence)
                 THEN pc' = "play" /\ playIdx' = playIdx + 1
                 ELSE pc' = "playend" /\ UNCHANGED playIdx
            /\ UNCHANGED <<inport, outport, sequence, score, phase,
                           stop_requested, ui_to_game>>
  /\ UNCHANGED <<expected_index, last_note, lastAge, midi_ok, ret, curMsg,
                 nCmds, evHead, portBuf, pressLog, sincePress,
                 deviceIn, deviceOut, lbFile, webVars>>

\* second half of light_pad (lines 140-148) and the step of the for loop
PlayUnlight ==
  /\ pc = "lit" /\ sleepLeft = 0
  /\ emit(<<EvUnlight(note_to_pad_index(sequence[playIdx]))>>)
  /\ sleepLeft' = GAP_T
  /\ IF playIdx < Len(sequence)
       THEN pc' = "play" /\ playIdx' = playIdx + 1
       ELSE pc' = "playend" /\ UNCHANGED playIdx
  /\ UNCHANGED <<inport, outport, sequence, score, phase, expected_index,
                 last_note, lastAge, stop_requested, midi_ok, ret, curMsg,
                 ui_to_game, nCmds, evHead, portBuf, pressLog, sincePress,
                 deviceIn, deviceOut, lbFile, webVars>>

\* the checkpoint after the last pad (lines 175-181)
PlayEnd ==
  /\ pc = "playend" /\ sleepLeft = 0
  /\ LET cmd == drain_commands(ui_to_game) IN
     /\ ui_to_game' = <<>>
     /\ IF cmd = "stop"
          THEN /\ go_idle(<<>>, "loop", IdleReturnSleep, TRUE, inport, outport)
               /\ UNCHANGED <<expected_index>>
          ELSE /\ phase' = "input"
               /\ expected_index' = 0
               /\ emit(<<EvPhase("input")>>)
               /\ pc' = "poll"
               /\ UNCHANGED <<inport, outport, sequence, score,
                              stop_requested, sleepLeft>>
  /\ UNCHANGED <<last_note, lastAge, midi_ok, ret, playIdx, curMsg,
                 nCmds, evHead, portBuf, pressLog, sincePress,
                 deviceIn, deviceOut, lbFile, webVars>>

\* the verdict the engine gives the message with identity id
SetVerdict(id, v) == pressLog' = [pressLog EXCEPT ![id].verdict = v]

\* one turn of `for msg in inport.iter_pending()` (lines 225-247): the next
\* pending message, or the end of the loop and the sleep of line 267
Poll ==
  /\ pc = "poll" /\ sleepLeft = 0
  /\ IF portBuf = <<>>
       THEN /\ pc' = "loop"
            /\ sleepLeft' = POLL_T
            /\ UNCHANGED <<last_note, lastAge, curMsg, portBuf, pressLog>>
       ELSE LET id == Head(portBuf)
                msg == pressLog[id]
            IN
            /\ portBuf' = Tail(portBuf)
            /\ IF ~IsPress(msg)
                 THEN /\ SetVerdict(id, "ignored")
                      /\ UNCHANGED <<pc, sleepLeft, last_note, lastAge, curMsg>>
               ELSE IF phase # "input"
                 THEN /\ SetVerdict(id, "dropped")
                      /\ UNCHANGED <<pc, sleepLeft, last_note, lastAge, curMsg>>
               ELSE IF last_note = msg.note /\ lastAge < DEBOUNCE_T
                 THEN /\ SetVerdict(id, "debounced")
                      /\ UNCHANGED <<pc, sleepLeft, last_note, lastAge, curMsg>>
               ELSE /\ last_note' = msg.note
                    /\ lastAge' = 0
                    /\ curMsg' = id
                    /\ pc' = "ack"
                    /\ sleepLeft' = ACK_T
                    /\ UNCHANGED pressLog
  /\ UNCHANGED <<inport, outport, sequence, score, phase, expected_index,
                 stop_requested, midi_ok, ret, playIdx,
                 ui_to_game, nCmds, game_events, evHead, sincePress,
                 deviceIn, deviceOut, lbFile, webVars>>

\* the exception handler and the finally block (lines 268-274)
Die(evs) ==
  /\ emit(evs \o <<EvError("Error")>>)
  /\ pc' = "dead"
  /\ sleepLeft' = 0
  /\ inport' = FALSE
  /\ outport' = FALSE

\* inport.iter_pending() raises: a receive fault of the open device
RecvFault ==
  /\ pc = "poll" /\ sleepLeft = 0
  /\ Die(<<>>)
  /\ UNCHANGED <<sequence, score, phase, expected_index, last_note, lastAge,
                 stop_requested, midi_ok, ret, playIdx, curMsg,
                 ui_to_game, nCmds, evHead, portBuf, pressLog, sincePress,
                 deviceIn, deviceOut, lbFile, webVars>>

\* game_over reporting the level (len(sequence)) instead of the frozen score
game_over_ReportsLevel(pre) ==
  IF LoadRaises(lbFile)
    THEN /\ phase' = "gameover"
         /\ Die(pre \o <<EvPhase("gameover")>>)
    ELSE /\ phase' = "gameover"
         /\ emit(pre \o <<EvPhase("gameover"),
                          EvGameover(Len(sequence),
                                     is_top_score(lbFile, Len(sequence)))>>)
         /\ pc' = "poll"
         /\ UNCHANGED <<sleepLeft, inport, outport>>

\* game_over (lines 183-189) after the events pre
game_over(pre) ==
  IF LoadRaises(lbFile)
    THEN /\ phase' = "gameover"
         /\ Die(pre \o <<EvPhase("gameover")>>)
    ELSE /\ phase' = "gameover"
         /\ emit(pre \o <<EvPhase("gameover"),
                          EvGameover(score, is_top_score(lbFile, score))>>)
         /\ pc' = "poll"
         /\ UNCHANGED <<sleepLeft, inport, outport>>

\* the comparison with a completion test that is off by one (> for >=)
Evaluate_CompletionOffByOne ==
  /\ pc = "ack" /\ sleepLeft = 0
  /\ LET note == pressLog[curMsg].note
         idx  == note_to_pad_index(note)
     IN
     IF expected_index + 1 > Len(sequence)
       THEN /\ Die(<<>>)
            /\ UNCHANGED <<phase, expected_index, pressLog>>
     ELSE IF note # sequence[expected_index + 1]
       THEN /\ game_over(<<EvWrong(idx)>>)
            /\ SetVerdict(curMsg, "wrong")
            /\ UNCHANGED expected_index
     ELSE /\ emit(<<EvCorrect(idx)>>)
          /\ SetVerdict(curMsg, "correct")
          /\ expected_index' = expected_index + 1
          /\ IF expected_index + 1 > Len(sequence)
               THEN pc' = "next" /\ sleepLeft' = NEXT_T
               ELSE pc' = "poll" /\ sleepLeft' = 0
          /\ UNCHANGED <<phase, inport, outport>>
  /\ UNCHANGED <<sequence, score, last_note, lastAge, stop_requested, midi_ok,
                 ret, playIdx, curMsg, ui_to_game, nCmds, evHead, portBuf, sincePress,
                 deviceIn, deviceOut, lbFile, webVars>>

\* after the acknowledgement blink: compare the press (lines 248-263)
Evaluate ==
  /\ pc = "ack" /\ sleepLeft = 0
  /\ LET note == pressLog[curMsg].note
         idx  == note_to_pad_index(note)
     IN
     IF expected_index + 1 > Len(sequence)
       THEN \* sequence[expected_index] raises IndexError
            /\ Die(<<>>)
            /\ UNCHANGED <<phase, expected_index, pressLog>>
     ELSE IF note # sequence[expected_index + 1]
       THEN /\ game_over(<<EvWrong(idx)>>)
            /\ SetVerdict(curMsg, "wrong")
            /\ UNCHANGED expected_index
     ELSE /\ emit(<<EvCorrect(idx)>>)
          /\ SetVerdict(curMsg, "correct")
          /\ expected_index' = expected_index + 1
          /\ IF expected_index + 1 >= Len(sequence)
               THEN pc' = "next" /\ sleepLeft' = NEXT_T
               ELSE pc' = "poll" /\ sleepLeft' = 0
          /\ UNCHANGED <<phase, inport, outport>>
  /\ UNCHANGED <<sequence, score, last_note, lastAge, stop_requested, midi_ok,
                 ret, playIdx, curMsg, ui_to_game, nCmds, evHead, portBuf, sincePress,
                 deviceIn, deviceOut, lbFile, webVars>>

\* a next round that starts from an empty sequence
NextRound_ForgetsSequence ==
  /\ pc = "next" /\ sleepLeft = 0
  /\ \E note \in Pads : start_round(<<>>, note, "press")
  /\ UNCHANGED <<inport, outport, last_note, lastAge, stop_requested, midi_ok,
                 curMsg, ui_to_game, nCmds, evHead, portBuf, pressLog, sincePress,
                 deviceIn, deviceOut, lbFile, webVars>>

\* the round is complete: start_round from the press loop (line 264)
NextRound ==
  /\ pc = "next" /\ sleepLeft = 0
  /\ \E note \in Pads : start_round(sequence, note, "press")
  /\ UNCHANGED <<inport, outport, last_note, lastAge, stop_requested, midi_ok,
                 curMsg, ui_to_game, nCmds, evHead, portBuf, pressLog, sincePress,
                 deviceIn, deviceOut, lbFile, webVars>>

\* time.sleep(sleepLeft) returns: that many ticks of 50 ms have passed.  The
\* engine reads the clock only when it handles a press (line 236), so the
\* sleep is one step; ages stop counting at the debounce window, beyond which
\* they are not compared.
Tick ==
  /\ sleepLeft > 0
  /\ sleepLeft' = 0
  /\ lastAge' = Min(lastAge + sleepLeft, DEBOUNCE_T)
  /\ sincePress' = [n \in Pads |-> Min(sincePress[n] + sleepLeft, DEBOUNCE_T)]
  /\ UNCHANGED <<inport, outport, sequence, score, phase, expected_index,
                 last_note, stop_requested, midi_ok, pc, ret, playIdx, curMsg,
                 ui_to_game, nCmds, game_events, evHead, portBuf, pressLog,
                 deviceIn, deviceOut, lbFile, webVars>>

\* ------------------------------------------------------------- environment
\* the previous press of the same pad in the log, 0 when there is none
PrevPress(log, note) ==
  LET S == {i \in DOMAIN log : IsPress(log[i]) /\ log[i].note = note}
  IN IF S = {} THEN 0 ELSE CHOOSE i \in S : \A j \in S : j <= i

\* The device sends a message; the open input port keeps it until
\* iter_pending hands it out (line 225).  The log records the phase at
\* arrival, the previous press of the same pad and whether that press was
\* less than the debounce window earlier (near).
Press ==
  /\ inport
  /\ nCmds + Len(pressLog) < MaxInputs
  /\ \E m \in DeviceMsgs :
       LET prev == IF IsPress(m) THEN PrevPress(pressLog, m.note) ELSE 0 IN
       /\ pressLog' = Append(pressLog,
            [note |-> m.note, velocity |-> m.velocity, phase |-> phase,
             prev |-> prev,
             near |-> prev # 0 /\ sincePress[m.note] < DEBOUNCE_T,
             verdict |-> "pending"])
       /\ portBuf' = Append(portBuf, Len(pressLog) + 1)
       /\ sincePress' = IF IsPress(m) THEN [sincePress EXCEPT ![m.note] = 0]
                        ELSE sincePress
  /\ UNCHANGED <<engineVars, ui_to_game, nCmds, game_events, evHead,
                 deviceIn, deviceOut, lbFile, webVars>>

\* websocket_handler puts a start or stop command (lines 297-300)
PutCommand ==
  /\ nCmds + Len(pressLog) < MaxInputs
  /\ \E cmd \in {"start", "stop"} : ui_to_game' = Append(ui_to_game, cmd)
  /\ nCmds' = nCmds + 1
  /\ UNCHANGED <<engineVars, game_events, evHead, portBuf, pressLog, sincePress,
                 deviceIn, deviceOut, lbFile, webVars>>

\* the controller is plugged in (find_starrypad_ports finds it from now on)
Plug ==
  /\ ~deviceIn
  /\ deviceIn' = TRUE
  /\ UNCHANGED <<engineVars, ui_to_game, nCmds, game_events, evHead,
                 portBuf, pressLog, sincePress, deviceOut, lbFile, webVars>>

\* ---------------------------------------------------------------- web side
\* Strings are sequences of characters.  str.strip() drops the white space at
\* both ends, [:20] keeps the first NAME_MAX characters (line 302).
RECURSIVE LStrip(_)
LStrip(s) == IF s # <<>> /\ Head(s) = " " THEN LStrip(Tail(s)) ELSE s

RECURSIVE RStrip(_)
RStrip(s) ==
  IF s # <<>> /\ s[Len(s)] = " " THEN RStrip(SubSeq(s, 1, Len(s) - 1)) ELSE s

Strip(s) == RStrip(LStrip(s))

CleanName(raw) == Take(Strip(raw), NAME_MAX)

\* add_score without the cut to the first TOP_N entries
add_score_NoCut(f, name, sc) ==
  SortDesc(Append(load_leaderboard(f), [name |-> name, score |-> sc]))

\* add_score (lines 61-66): the board it saves and returns
add_score(f, name, sc) ==
  Take(SortDesc(Append(load_leaderboard(f), [name |-> name, score |-> sc])),
       TOP_N)

\* the submit_name payloads the observers send: [name, stype, score], stype
\* the JSON type of the score and score its value as Python compares it
\* (true is 1)
LongName == [i \in 1 .. NAME_MAX + 1 |-> "x"]
SubmitInputs ==
  {[name |-> <<"a">>, stype |-> "int", score |-> 2],
   [name |-> <<" ", "b", " ">>, stype |-> "int", score |-> 1],
   [name |-> <<" ">>, stype |-> "int", score |-> 2],
   [name |-> <<"a">>, stype |-> "int", score |-> 0],
   [name |-> <<"a">>, stype |-> "float", score |-> 2],
   [name |-> <<"a">>, stype |-> "bool", score |-> 1],
   [name |-> LongName, stype |-> "int", score |-> 3]}

\* isinstance(score, int) (line 304): bool is a subclass of int
IsInstanceInt(d) == d.stype \in {"int", "bool"}

Observers == 1 .. NumObservers

\* a message as an observer receives it: src is "connect" for the snapshot of
\* lines 285-286, "submit" for the fan-out of lines 306-309 and "engine" for a
\* forwarded event, whose seq is its position in game_events
Msg(src, seq, body) == [src |-> src, seq |-> seq, msg |-> body]

\* ws.send_str(m) to observer c: the message reaches an open connection
Deliver(c, m) == received' = [received EXCEPT ![c] = Append(@, m)]

\* the engine puts an event on game_events (emit, lines 101-102): the events
\* of light_pad, light and unlight in turn
EmitEvent ==
  /\ Len(game_events) < MaxEvents
  /\ emit(<<IF Len(game_events) % 2 = 0 THEN EvLight(0) ELSE EvUnlight(0)>>)
  /\ UNCHANGED <<engineVars, ui_to_game, nCmds, evHead, portBuf, pressLog,
                 sincePress, deviceIn, deviceOut, lbFile, webVars>>

\* the handler registers the observer and sends no snapshot in the same step
Connect_NoSnapshot(c) ==
  /\ conn[c] = "new"
  /\ clients' = clients \cup {c}
  /\ conn' = [conn EXCEPT ![c] = "open"]
  /\ UNCHANGED <<engineVars, ui_to_game, nCmds, game_events, evHead, portBuf,
                 pressLog, sincePress, deviceIn, deviceOut, lbFile, received,
                 fpc, fanEv, fanSnap, fanLeft, hLeft, hPayload, submitLog>>

\* websocket_handler up to its receive loop (lines 280-286).  Nothing is
\* awaited between clients.add and the write of the snapshot, so it is one
\* step of the event loop.  When load_leaderboard or the send raises, the
\* handler ends outside its try block: the connection is torn down and ws
\* stays in clients.
Connect(c) ==
  /\ conn[c] = "new"
  /\ clients' = clients \cup {c}
  /\ IF LoadRaises(lbFile)
       THEN /\ conn' = [conn EXCEPT ![c] = "broken"]
            /\ UNCHANGED received
       ELSE \/ /\ Deliver(c, Msg("connect", 0, EvBoard(load_leaderboard(lbFile))))
               /\ conn' = [conn EXCEPT ![c] = "open"]
            \/ /\ conn' = [conn EXCEPT ![c] = "broken"]
               /\ UNCHANGED received
  /\ UNCHANGED <<engineVars, ui_to_game, nCmds, game_events, evHead, portBuf,
                 pressLog, sincePress, deviceIn, deviceOut, lbFile,
                 fpc, fanEv, fanSnap, fanLeft, hLeft, hPayload, submitLog>>

\* the observer closes the connection: the receive loop ends and the finally
\* block discards ws (lines 312-313)
Disconnect(c) ==
  /\ conn[c] = "open" /\ hLeft[c] = {}
  /\ conn' = [conn EXCEPT ![c] = "closed"]
  /\ clients' = clients \ {c}
  /\ UNCHANGED <<engineVars, ui_to_game, nCmds, game_events, evHead, portBuf,
                 pressLog, sincePress, deviceIn, deviceOut, lbFile,
                 received, fpc, fanEv, fanSnap, fanLeft, hLeft, hPayload, submitLog>>

\* the forwarder takes the newest event of the queue instead of the oldest
ForwarderGet_TakesNewest ==
  /\ fpc = "idle"
  /\ evHead < Len(game_events)
  /\ evHead' = evHead + 1
  /\ fanEv' = Len(game_events)
  /\ fanSnap' = clients
  /\ fanLeft' = clients
  /\ fpc' = "send"
  /\ UNCHANGED <<engineVars, ui_to_game, nCmds, game_events, portBuf,
                 pressLog, sincePress, deviceIn, deviceOut, lbFile,
                 clients, conn, received, hLeft, hPayload, submitLog>>

\* game_event_forwarder takes the next event (lines 328-334) and broadcast
\* snapshots the subscriber set (line 319)
ForwarderGet ==
  /\ fpc = "idle"
  /\ evHead < Len(game_events)
  /\ evHead' = evHead + 1
  /\ fanEv' = evHead + 1
  /\ fanSnap' = clients
  /\ fanLeft' = clients
  /\ fpc' = "send"
  /\ UNCHANGED <<engineVars, ui_to_game, nCmds, game_events, portBuf,
                 pressLog, sincePress, deviceIn, deviceOut, lbFile,
                 clients, conn, received, hLeft, hPayload, submitLog>>

\* broadcast without the try block: a failed send ends the whole fan-out
BroadcastSend_AbortsOnFailure(c) ==
  /\ fpc = "send"
  /\ c \in fanLeft
  /\ \/ /\ IF conn[c] = "open"
             THEN Deliver(c, Msg("engine", fanEv, game_events[fanEv]))
             ELSE UNCHANGED received
        /\ fanLeft' = fanLeft \ {c}
        /\ UNCHANGED clients
     \/ /\ clients' = clients \ {c}
        /\ fanLeft' = {}
        /\ UNCHANGED received
  /\ UNCHANGED <<engineVars, ui_to_game, nCmds, game_events, evHead, portBuf,
                 pressLog, sincePress, deviceIn, deviceOut, lbFile,
                 conn, fpc, fanEv, fanSnap, hLeft, hPayload, submitLog>>

\* one turn of the loop of broadcast (lines 319-323): the send to c succeeds,
\* or it raises and c is discarded.  A send on a connection that is no longer
\* open delivers nothing, whether it raises or not.
BroadcastSend(c) ==
  /\ fpc = "send"
  /\ c \in fanLeft
  /\ fanLeft' = fanLeft \ {c}
  /\ \/ /\ IF conn[c] = "open"
             THEN Deliver(c, Msg("engine", fanEv, game_events[fanEv]))
             ELSE UNCHANGED received
        /\ UNCHANGED clients
     \/ /\ clients' = clients \ {c}
        /\ UNCHANGED received
  /\ UNCHANGED <<engineVars, ui_to_game, nCmds, game_events, evHead, portBuf,
                 pressLog, sincePress, deviceIn, deviceOut, lbFile,
                 conn, fpc, fanEv, fanSnap, hLeft, hPayload, submitLog>>

\* broadcast returns: the forwarder goes back to its queue
BroadcastDone ==
  /\ fpc = "send"
  /\ fanLeft = {}
  /\ fpc' = "idle"
  /\ UNCHANGED <<engineVars, ui_to_game, nCmds, game_events, evHead, portBuf,
                 pressLog, sincePress, deviceIn, deviceOut, lbFile,
                 clients, conn, received, fanEv, fanSnap, fanLeft, hLeft, hPayload,
                 submitLog>>

\* a handler that adds the score to the board it last sent out instead of
\* the board of the file
SubmitWith_StaleBoard(c, inputs, bound) ==
  /\ conn[c] = "open" /\ hLeft[c] = {}
  /\ Len(submitLog) < bound
  /\ \E d \in inputs :
       LET name == CleanName(d.name) IN
       /\ submitLog' = Append(submitLog, d)
       /\ IF name # <<>> /\ IsInstanceInt(d) /\ d.score > 0
            THEN LET board == add_score(FileList(hPayload[c].board), name, d.score)
                 IN
                 /\ lbFile' = FileList(board)
                 /\ hPayload' = [hPayload EXCEPT ![c] = EvBoard(board)]
                 /\ hLeft' = [hLeft EXCEPT ![c] = clients]
                 /\ UNCHANGED <<conn, clients>>
            ELSE UNCHANGED <<lbFile, hLeft, hPayload, conn, clients>>
  /\ UNCHANGED <<engineVars, ui_to_game, nCmds, game_events, evHead, portBuf,
                 pressLog, sincePress, deviceIn, deviceOut,
                 received, fpc, fanEv, fanSnap, fanLeft>>

\* websocket_handler receives submit_name (lines 301-307): validation,
\* add_score and the snapshot of the subscriber set for the fan-out.  Nothing
\* is awaited between the load and the save of add_score, so no other handler
\* runs in between.  The payload is one of inputs, and at most bound
\* submissions are made in a run.
SubmitWith(c, inputs, bound) ==
  /\ conn[c] = "open" /\ hLeft[c] = {}
  /\ Len(submitLog) < bound
  /\ \E d \in inputs :
       LET name == CleanName(d.name) IN
       /\ submitLog' = Append(submitLog, d)
       /\ IF name # <<>> /\ IsInstanceInt(d) /\ d.score > 0
            THEN IF AddRaises(lbFile)
                   THEN \* add_score raises: the handler ends through finally
                        /\ conn' = [conn EXCEPT ![c] = "closed"]
                        /\ clients' = clients \ {c}
                        /\ UNCHANGED <<lbFile, hLeft, hPayload>>
                   ELSE LET board == add_score(lbFile, name, d.score) IN
                        /\ lbFile' = FileList(board)
                        /\ hPayload' = [hPayload EXCEPT ![c] = EvBoard(board)]
                        /\ hLeft' = [hLeft EXCEPT ![c] = clients]
                        /\ UNCHANGED <<conn, clients>>
            ELSE UNCHANGED <<lbFile, hLeft, hPayload, conn, clients>>
  /\ UNCHANGED <<engineVars, ui_to_game, nCmds, game_events, evHead, portBuf,
                 pressLog, sincePress, deviceIn, deviceOut,
                 received, fpc, fanEv, fanSnap, fanLeft>>

Submit(c) == SubmitWith(c, SubmitInputs, MaxSubmits)

\* one turn of the fan-out loop of the handler of c (lines 307-311)
SubmitSend(c, d) ==
  /\ d \in hLeft[c]
  /\ hLeft' = [hLeft EXCEPT ![c] = @ \ {d}]
  /\ \/ /\ IF conn[d] = "open"
             THEN Deliver(d, Msg("submit", 0, hPayload[c]))
             ELSE UNCHANGED received
        /\ UNCHANGED clients
     \/ /\ clients' = clients \ {d}
        /\ UNCHANGED received
  /\ UNCHANGED <<engineVars, ui_to_game, nCmds, game_events, evHead, portBuf,
                 pressLog, sincePress, deviceIn, deviceOut, lbFile,
                 conn, fpc, fanEv, fanSnap, fanLeft, hPayload, submitLog>>

\* ------------------------------------------------------------ specifications
InitFiles == {FileMissing, FileBadItems,
              FileList(<<[name |-> <<"z">>, score |-> 1]>>)}

InitEngine ==
  /\ inport = FALSE /\ outport = FALSE
  /\ sequence = <<>> /\ score = 0 /\ phase = "idle" /\ expected_index = 0
  /\ last_note = None /\ lastAge = DEBOUNCE_T
  /\ stop_requested = FALSE /\ midi_ok = FALSE
  /\ pc = "boot" /\ ret = "main" /\ playIdx = 0 /\ curMsg = 0 /\ sleepLeft = 0
  /\ ui_to_game = <<>> /\ nCmds = 0 /\ game_events = <<>> /\ evHead = 0
  /\ portBuf = <<>> /\ pressLog = <<>>
  /\ sincePress = [n \in Pads |-> DEBOUNCE_T]

InitWeb ==
  /\ clients = {}
  /\ conn = [c \in Observers |-> "new"]
  /\ received = [c \in Observers |-> <<>>]
  /\ fpc = "idle" /\ fanEv = 0 /\ fanSnap = {} /\ fanLeft = {}
  /\ hLeft = [c \in Observers |-> {}]
  /\ hPayload = [c \in Observers |-> EvBoard(<<>>)]
  /\ submitLog = <<>>

\* the engine with its device and its command queue
Init ==
  /\ InitEngine /\ InitWeb
  /\ deviceIn \in BOOLEAN /\ deviceOut \in BOOLEAN
  /\ lbFile \in InitFiles

Next ==
  \/ Boot \/ MainLoop \/ PlayCheckpoint \/ PlayUnlight \/ PlayEnd
  \/ Poll \/ RecvFault \/ Evaluate \/ NextRound \/ Tick
  \/ Press \/ PutCommand \/ Plug

Spec == Init /\ [][Next]_vars

\* the web side: the event queue, the forwarder and the connection handlers
InitBus ==
  /\ InitEngine /\ InitWeb
  /\ deviceIn = FALSE /\ deviceOut = FALSE
  /\ lbFile \in InitFiles

NextBus ==
  \/ EmitEvent
  \/ ForwarderGet
  \/ BroadcastDone
  \/ \E c \in Observers : Connect(c)
  \/ \E c \in Observers : Disconnect(c)
  \/ \E c \in Observers : BroadcastSend(c)
  \/ \E c \in Observers : Submit(c)
  \/ \E c, d \in Observers : SubmitSend(c, d)

SpecBus == InitBus /\ [][NextBus]_vars

\* the leaderboard store: add_score applied again and again to a file
\* Scenario B's full board; a hand-edited file of six entries out of order;
\* a file with an entry that has no "score"
BoardFull == <<[name |-> <<"A">>, score |-> 10], [name |-> <<"B">>, score |-> 8],
               [name |-> <<"C">>, score |-> 6], [name |-> <<"D">>, score |-> 4],
               [name |-> <<"E">>, score |-> 2]>>
BoardUnsorted == <<[name |-> <<"p">>, score |-> 1], [name |-> <<"q">>, score |-> 4],
                   [name |-> <<"r">>, score |-> 2], [name |-> <<"s">>, score |-> 4],
                   [name |-> <<"t">>, score |-> 1], [name |-> <<"u">>, score |-> 2]>>
BoardNoScore == <<[name |-> <<"n">>], [name |-> <<"m">>, score |-> 2]>>

StoreFiles == {FileMissing, FileGarbage, FileNonList, FileBadItems,
               FileList(<<>>), FileList(BoardFull), FileList(BoardUnsorted),
               FileList(BoardNoScore)}

\* the entries add_score is called with
StoreEntries == {[name |-> n, score |-> s] : n \in {<<"a">>, <<"b">>},
                                             s \in {1, 2, 4, 9}}

\* add_score(name, score) and its save (lines 61-66); nothing is written when
\* it raises
AddScoreCall ==
  /\ Len(submitLog) < MaxSaves
  /\ \E e \in StoreEntries :
       /\ submitLog' = Append(submitLog,
                              [name |-> e.name, stype |-> "int", score |-> e.score])
       /\ IF AddRaises(lbFile)
            THEN UNCHANGED lbFile
            ELSE lbFile' = FileList(add_score(lbFile, e.name, e.score))
  /\ UNCHANGED <<engineVars, ui_to_game, nCmds, game_events, evHead, portBuf,
                 pressLog, sincePress, deviceIn, deviceOut,
                 clients, conn, received, fpc, fanEv, fanSnap, fanLeft, hLeft,
                 hPayload>>

InitStore ==
  /\ InitEngine /\ InitWeb
  /\ deviceIn = FALSE /\ deviceOut = FALSE
  /\ lbFile \in StoreFiles

NextStore == AddScoreCall

SpecStore == InitStore /\ [][NextStore]_vars

\* the connection handlers and their submissions, from an empty board: two
\* names with the same score, a higher score, and a submission that is
\* rejected
ScoreInputs ==
  {[name |-> <<"a">>, stype |-> "int", score |-> 1],
   [name |-> <<"b">>, stype |-> "int", score |-> 1],
   [name |-> <<"c">>, stype |-> "int", score |-> 2],
   [name |-> <<"a">>, stype |-> "int", score |-> 0]}

\* A run begins with the empty board, or later in the life of the server:
\* four submissions were accepted from connections that are gone since, and
\* the file holds their board.
PriorLog ==
  <<[name |-> <<"a">>, stype |-> "int", score |-> 1],
    [name |-> <<"c">>, stype |-> "int", score |-> 2],
    [name |-> <<"b">>, stype |-> "int", score |-> 1],
    [name |-> <<"a">>, stype |-> "int", score |-> 1]>>
PriorBoard ==
  <<[name |-> <<"c">>, score |-> 2], [name |-> <<"a">>, score |-> 1],
    [name |-> <<"b">>, score |-> 1], [name |-> <<"a">>, score |-> 1]>>

\* the submissions made before the run began
SubmitsBefore == IF Len(submitLog) >= Len(PriorLog) THEN Len(PriorLog) ELSE 0

InitSubmit ==
  /\ InitEngine
  /\ clients = {}
  /\ conn = [c \in Observers |-> "new"]
  /\ received = [c \in Observers |-> <<>>]
  /\ fpc = "idle" /\ fanEv = 0 /\ fanSnap = {} /\ fanLeft = {}
  /\ hLeft = [c \in Observers |-> {}]
  /\ hPayload = [c \in Observers |-> EvBoard(<<>>)]
  /\ deviceIn = FALSE /\ deviceOut = FALSE
  /\ \/ submitLog = <<>> /\ lbFile \in {FileMissing, FileList(<<>>)}
     \/ submitLog = PriorLog /\ lbFile = FileList(PriorBoard)

NextSubmit ==
  \/ \E c \in Observers : Connect(c)
  \/ \E c \in Observers : Disconnect(c)
  \/ \E c \in Observers :
       SubmitWith(c, ScoreInputs, SubmitsBefore + MaxScoreSubmits)
  \/ \E c, d \in Observers : SubmitSend(c, d)

SpecSubmit == InitSubmit /\ [][NextSubmit]_vars

\* ------------------------------------------------------------------ claims
Evaluated == {"correct", "wrong"}

\* the events a step puts on game_events
NewEvents == SubSeq(game_events', Len(game_events) + 1, Len(game_events'))

\* C1: a pad press that arrives while Phase is not Input is never evaluated
\* (no 'correct' or 'wrong' for it), even after the engine enters Input later.
C1_PressOutsideInputNeverEvaluated ==
  \A i \in DOMAIN pressLog :
    pressLog[i].phase # "input" => pressLog[i].verdict \notin Evaluated

\* C2: a Stop enqueued while Phase is Playing or Input takes the engine to
\* Idle with Sequence cleared and Score 0, whatever other commands are enqueued
\* around it in the same poll cycle: the drain that takes the Stop off the
\* queue resets the engine.
C2_StopAlwaysHonoured ==
  [][(/\ phase \in {"playing", "input"}
      /\ "stop" \in Range(ui_to_game)
      /\ ui_to_game' = <<>>)
       => (phase' = "idle" /\ sequence' = <<>> /\ score' = 0)]_vars

\* C3: a Stop observed at a checkpoint of the playback ends the round: the
\* step emits no 'light', Phase goes from Playing straight to Idle and
\* Sequence is empty afterwards; and a 'light' is only ever emitted by a step
\* that starts and ends in Playing.
C3_StopAtCheckpoint ==
  [][/\ (/\ phase = "playing"
         /\ drain_commands(ui_to_game) = "stop"
         /\ ui_to_game' = <<>>)
        => /\ phase' = "idle"
           /\ sequence' = <<>>
           /\ \A k \in DOMAIN NewEvents : NewEvents[k].type # "light"
     /\ (\E k \in DOMAIN NewEvents : NewEvents[k].type = "light")
        => (phase = "playing" /\ phase' = "playing")]_vars

\* a round of two pads was stopped after its first pad: the events end with
\* score 1, playing, light, unlight, idle, score 0, leaderboard
C3_Witness ==
  /\ phase = "idle"
  /\ Len(game_events) >= 7
  /\ LET n == Len(game_events) IN
     /\ game_events[n - 6] = EvScore(1)
     /\ game_events[n - 5] = EvPhase("playing")
     /\ game_events[n - 4].type = "light"
     /\ game_events[n - 3].type = "unlight"
     /\ game_events[n - 2] = EvPhase("idle")
     /\ game_events[n - 1] = EvScore(0)

\* C4: whenever Phase is Playing or Input, Score = len(Sequence) - 1.
C4_ScoreIsLenMinusOne ==
  phase \in {"playing", "input"} => score = Len(sequence) - 1

C4_Witness == phase = "input" /\ Len(sequence) = 2 /\ score = 1

\* C8: no device I/O fault on the open device and no corrupt leaderboard file
\* ends the engine loop.
C8_EngineLoopNeverEnds == pc # "dead"

\* C9: of two presses of the same pad less than 350 ms apart (both arriving in
\* Input) at most one is evaluated.
C9_NearPressesOneEvaluation ==
  \A i \in DOMAIN pressLog :
    (/\ pressLog[i].near
     /\ pressLog[i].phase = "input"
     /\ pressLog[pressLog[i].prev].phase = "input"
     /\ pressLog[pressLog[i].prev].verdict \in Evaluated)
      => pressLog[i].verdict \notin Evaluated

\* C10: a press that arrives in Input at least 350 ms after the previous press
\* of the same pad (which also arrived in Input) is evaluated on its own: the
\* debounce never discards it.
C10_FarPressesBothEvaluated ==
  \A i \in DOMAIN pressLog :
    (/\ pressLog[i].prev # 0
     /\ ~pressLog[i].near
     /\ pressLog[i].phase = "input"
     /\ pressLog[pressLog[i].prev].phase = "input")
      => pressLog[i].verdict # "debounced"

\* C11: in Input, an accepted press whose pad is not Sequence[ExpectedIndex]
\* makes the engine emit 'wrong' for that pad, phase 'gameover' and a gameover
\* event whose score is len(Sequence) - 1, in this order and nothing else, and
\* Phase is GameOver afterwards.
C11_WrongPressEndsGame ==
  [][(/\ pc = "ack" /\ pc' # "ack"
      /\ expected_index < Len(sequence)
      /\ pressLog[curMsg].note # sequence[expected_index + 1])
       => /\ phase = "input"
          /\ phase' = "gameover"
          /\ Len(NewEvents) = 3
          /\ NewEvents[1] = EvWrong(note_to_pad_index(pressLog[curMsg].note))
          /\ NewEvents[2] = EvPhase("gameover")
          /\ NewEvents[3].type = "gameover"
          /\ NewEvents[3].score = Len(sequence) - 1
          /\ score' = Len(sequence) - 1]_vars

\* Sequence = [31, 32], the player pressed 32 at ExpectedIndex 0: the events
\* end with wrong, phase gameover, gameover with score 1
C11_Witness ==
  /\ phase = "gameover"
  /\ sequence = <<NOTE_MIN, NOTE_MIN + 1>>
  /\ expected_index = 0
  /\ Len(game_events) >= 3
  /\ LET n == Len(game_events) IN
     /\ game_events[n - 2] = EvWrong(1)
     /\ game_events[n - 1] = EvPhase("gameover")
     /\ game_events[n].type = "gameover"
     /\ game_events[n].score = 1

\* C12: once Phase is GameOver, Phase stays GameOver and Score keeps its value
\* until a Start command is consumed: a step that consumes no Start (a press,
\* a Stop, a submission) changes neither.
C12_GameOverUntilStart ==
  [][phase = "gameover"
       => \/ phase' = "gameover" /\ score' = score
          \/ "start" \in Range(ui_to_game) /\ ui_to_game' = <<>>]_vars

\* C13: a Start consumed in Idle while no input device can be found makes the
\* engine emit an error, leaves Phase Idle and Sequence empty and emits no
\* phase 'playing'; a Start consumed in Idle once the device is there takes
\* the engine to Playing.
C13_StartWithoutDevice ==
  [][(/\ pc = "loop" /\ phase = "idle"
      /\ drain_commands(ui_to_game) = "start" /\ ui_to_game' = <<>>)
       => IF ~midi_ok /\ ~deviceIn
            THEN /\ NewEvents # <<>>
                 /\ NewEvents[1].type = "error"
                 /\ \A k \in DOMAIN NewEvents : NewEvents[k] # EvPhase("playing")
                 /\ phase' = "idle"
                 /\ sequence' = <<>>
            ELSE /\ phase' = "playing"
                 /\ Len(sequence') = 1
                 /\ \E k \in DOMAIN NewEvents : NewEvents[k] = EvPhase("playing")]_vars

\* a Start without device was answered by an error, and a later Start, after
\* the device was plugged in, started the round
C13_Witness ==
  /\ phase = "playing"
  /\ \E i, j \in DOMAIN game_events :
       /\ i < j
       /\ game_events[i].type = "error"
       /\ game_events[j] = EvPhase("playing")
       /\ \A k \in 1 .. j - 1 : game_events[k] # EvPhase("playing")

\* the last submission of the log after the step
LastSubmit == submitLog'[Len(submitLog')]

\* b is sorted by score, highest first
SortedDesc(b) ==
  \A i, j \in DOMAIN b : i < j => ScoreOf(b[i]) >= ScoreOf(b[j])

\* C14: after every save of add_score the persisted board has at most TOP_N
\* entries and is sorted by score in descending order.
C14_SavedBoardSortedTop5 ==
  [][(submitLog' # submitLog /\ ~AddRaises(lbFile))
       => /\ lbFile'.kind = "list"
          /\ Len(lbFile'.data) <= TOP_N
          /\ SortedDesc(lbFile'.data)
          /\ \A i \in DOMAIN lbFile'.data : "score" \in DOMAIN lbFile'.data[i]]_vars

\* three entries were added to the six-entry file: five are kept, the new
\* ones among them
C14_Witness ==
  /\ Len(submitLog) = MaxSaves
  /\ lbFile.kind = "list"
  /\ Len(lbFile.data) = TOP_N
  /\ lbFile.data[1].score = 9
  /\ lbFile.data[TOP_N].score = 4
  /\ lbFile.data[TOP_N].name = <<"a">>

\* C15: on a full board an entry whose score is at most the lowest score of
\* the board leaves the board as it is, and is_top_score is false for it.
C15_LowScoreLeavesFullBoard ==
  [][LET board == load_leaderboard(lbFile) IN
     (/\ submitLog' # submitLog
      /\ ~AddRaises(lbFile)
      /\ Len(board) = TOP_N
      /\ LastSubmit.score <= ScoreOf(board[TOP_N]))
       => /\ lbFile'.data = board
          /\ load_leaderboard(lbFile') = board
          /\ ~is_top_score(lbFile, LastSubmit.score)]_vars

\* Scenario B's board after ("a", 2) was submitted: "E" with score 2 is still
\* the last entry
C15_Witness ==
  /\ submitLog # <<>>
  /\ submitLog[Len(submitLog)].score = 2
  /\ lbFile = FileList(BoardFull)

\* C16: the leaderboard file is written only by the engine thread: a step
\* that changes the file is a step of the engine, and the step of a connection
\* handler that receives a submission leaves the file alone.
C16_OnlyEngineSavesBoard ==
  [][lbFile' # lbFile
       => /\ <<engineVars, game_events>>' # <<engineVars, game_events>>
          /\ submitLog' = submitLog]_vars

\* C17: a submit_name changes the board only if its trimmed name is not empty
\* and its score is a positive JSON integer; a rejected one changes nothing
\* and sends nothing; an accepted one stores the trimmed name cut to NAME_MAX
\* characters and goes out to every subscribed observer.
C17_SubmitValidated ==
  [][submitLog' # submitLog
       => LET d == LastSubmit
              valid == Strip(d.name) # <<>> /\ d.stype = "int" /\ d.score > 0
          IN IF valid
               THEN AddRaises(lbFile)
                    \/ /\ \E i \in DOMAIN lbFile'.data :
                            lbFile'.data[i] =
                              [name |-> Take(Strip(d.name), NAME_MAX),
                               score |-> d.score]
                       /\ \E c \in Observers :
                            hLeft'[c] = clients /\ hPayload'[c] = EvBoard(lbFile'.data)
               ELSE /\ lbFile' = lbFile
                    /\ hLeft' = hLeft
                    /\ received' = received]_vars

\* the position in game_events of the phase 'playing' of the current round
RoundStart ==
  LET S == {i \in DOMAIN game_events : game_events[i] = EvPhase("playing")}
  IN IF S = {} THEN 0 ELSE CHOOSE i \in S : \A j \in S : j <= i

\* C18: every 'light' is followed at once by the 'unlight' of the same pad,
\* no event comes between them (the pad is lit only while the engine is in
\* the on-time of that pulse), and the pulses of a playback go through
\* Sequence in order, whether or not a Stop is pending.
C18_PulsesComplete ==
  LET n == Len(game_events) IN
  /\ \A i \in DOMAIN game_events :
       /\ game_events[i].type = "light"
            => IF i = n THEN pc = "lit"
               ELSE game_events[i + 1] = EvUnlight(game_events[i].pad)
       /\ game_events[i].type = "unlight"
            => i > 1 /\ game_events[i - 1] = EvLight(game_events[i].pad)
  /\ pc = "lit"
       => n > 0 /\ game_events[n] = EvLight(note_to_pad_index(sequence[playIdx]))
  /\ phase = "playing"
       => \A k \in 1 .. n - RoundStart :
            game_events[RoundStart + k] =
              IF k % 2 = 1
                THEN EvLight(note_to_pad_index(sequence[(k + 1) \div 2]))
                ELSE EvUnlight(note_to_pad_index(sequence[k \div 2]))

\* both pads of a round of two were pulsed and a Stop is waiting in the queue
C18_Witness ==
  /\ phase = "playing" /\ Len(sequence) = 2
  /\ "stop" \in Range(ui_to_game)
  /\ Len(game_events) >= 4
  /\ LET n == Len(game_events) IN
     /\ game_events[n - 3] = EvLight(note_to_pad_index(sequence[1]))
     /\ game_events[n - 2] = EvUnlight(note_to_pad_index(sequence[1]))
     /\ game_events[n - 1] = EvLight(note_to_pad_index(sequence[2]))
     /\ game_events[n] = EvUnlight(note_to_pad_index(sequence[2]))

\* C19: in Input 0 <= ExpectedIndex <= len(Sequence); ExpectedIndex is 0 when
\* Input is entered; a press is compared only with ExpectedIndex below
\* len(Sequence); a correct press adds exactly one, and reaching
\* len(Sequence) starts the next round.
C19_ExpectedIndexInRange ==
  /\ [](/\ phase = "input"
            => 0 <= expected_index /\ expected_index <= Len(sequence)
        /\ pc = "ack"
            => phase = "input" /\ expected_index < Len(sequence)
        /\ pc = "next"
            => phase = "input" /\ expected_index = Len(sequence))
  /\ [][/\ (phase # "input" /\ phase' = "input") => expected_index' = 0
        /\ (\E k \in DOMAIN NewEvents : NewEvents[k].type = "correct")
             => /\ pc = "ack"
                /\ expected_index' = expected_index + 1
                /\ pc' = (IF expected_index' = Len(sequence)
                            THEN "next" ELSE "poll")
        /\ (expected_index' # expected_index
              /\ ~\E k \in DOMAIN NewEvents : NewEvents[k].type = "correct")
             => expected_index' = 0
        /\ (pc = "next" /\ pc' # "next")
             => phase' = "playing" /\ Len(sequence') = Len(sequence) + 1]_vars

\* the first of two pads was repeated correctly, the second is awaited
C19_Witness ==
  /\ phase = "input" /\ pc = "poll"
  /\ Len(sequence) = 2 /\ expected_index = 1

\* C20: Sequence changes only by one pad of 31..46 appended at a round start,
\* by a Start from Idle or GameOver (then it is the one pad of round 1) and by
\* going Idle (then it is empty); at every round start its length is the
\* round number, Score + 1.
C20_SequenceAppendOnly ==
  [][/\ sequence' # sequence
          => \/ sequence' = <<>> /\ phase' = "idle"
             \/ /\ phase \in {"idle", "gameover"}
                /\ drain_commands(ui_to_game) = "start" /\ ui_to_game' = <<>>
                /\ phase' = "playing"
                /\ Len(sequence') = 1
                /\ sequence'[1] \in PLAYABLE_NOTES
             \/ /\ phase = "input" /\ phase' = "playing"
                /\ \E n \in PLAYABLE_NOTES : sequence' = Append(sequence, n)
     /\ (phase # "playing" /\ phase' = "playing")
          => /\ Len(sequence') = (IF phase = "input" THEN Len(sequence) + 1 ELSE 1)
             /\ Len(sequence') = score' + 1]_vars

\* round 2 of a session has just started: the playback of two pads begins
C20_Witness ==
  /\ phase = "playing" /\ pc = "play" /\ playIdx = 1
  /\ Len(sequence) = 2

\* the entries of the accepted submissions of a log, in the order submitted
RECURSIVE AcceptedEntries(_)
AcceptedEntries(log) ==
  IF log = <<>> THEN <<>>
  ELSE LET d == log[Len(log)]
           rest == AcceptedEntries(SubSeq(log, 1, Len(log) - 1))
       IN IF Strip(d.name) # <<>> /\ d.stype \in {"int", "bool"} /\ d.score > 0
            THEN Append(rest, [name |-> Take(Strip(d.name), NAME_MAX),
                               score |-> d.score])
            ELSE rest

\* C21: from an empty board, after any interleaving of submissions of any
\* connections the persisted board is the first TOP_N of all accepted
\* submissions ordered by score, highest first, earlier submissions first
\* among equal scores: no update is lost.
C21_NoLostSubmission ==
  LET all == AcceptedEntries(submitLog) IN
  /\ load_leaderboard(lbFile) = Take(SortDesc(all), TOP_N)
  /\ all # <<>> => lbFile = FileList(Take(SortDesc(all), TOP_N))

\* more than TOP_N submissions were accepted, the last of them while the
\* handler of another connection was still sending out its own update, and
\* an early entry of score 1 is no longer on the board
C21_Witness ==
  /\ Len(AcceptedEntries(submitLog)) > TOP_N
  /\ \A c \in Observers : hLeft[c] # {}
  /\ lbFile.kind = "list" /\ Len(lbFile.data) = TOP_N
  /\ lbFile.data[2].score = 2
  /\ lbFile.data[TOP_N].name = <<"b">>

\* observer c has received the forwarded event number k
HasEvent(c, k) ==
  \E i \in DOMAIN received[c] :
    received[c][i].src = "engine" /\ received[c][i].seq = k

\* C5: every observer receives the engine's events in the order of emission,
\* none of them twice, and each as it was emitted.
C5_EventsInOrder ==
  \A c \in Observers :
    LET r == received[c] IN
    /\ \A i, j \in DOMAIN r :
         (i < j /\ r[i].src = "engine" /\ r[j].src = "engine")
           => r[i].seq < r[j].seq
    /\ \A i \in DOMAIN r :
         r[i].src = "engine" => r[i].msg = game_events[r[i].seq]

\* two observers have each received two forwarded events
C5_Witness ==
  \A c \in Observers :
    \E i, j \in DOMAIN received[c] :
      i < j /\ received[c][i].src = "engine" /\ received[c][j].src = "engine"

\* C6: a failed send of the fan-out removes exactly the observer it was for,
\* leaves the engine, both queues and the rest of the fan-out alone, and
\* every other observer of the snapshot that is still subscribed and connected
\* gets the event.
C6_FailureIsolated ==
  /\ [](fpc = "send" =>
          \A d \in fanSnap \ fanLeft :
            (d \in clients /\ conn[d] = "open") => HasEvent(d, fanEv))
  /\ [][\A c \in Observers :
          (fpc = "send" /\ c \in fanLeft /\ c \notin fanLeft'
             /\ c \in clients /\ c \notin clients')
            => /\ clients' = clients \ {c}
               /\ fanLeft' = fanLeft \ {c}
               /\ UNCHANGED <<engineVars, ui_to_game, game_events, evHead,
                              received, conn, fpc, fanEv, fanSnap>>]_vars

\* the send to c failed and c is gone, the other observer of the same
\* fan-out has the event
C6_Witness ==
  /\ fpc = "send"
  /\ \E c, d \in fanSnap :
       /\ c # d
       /\ c \notin fanLeft /\ c \notin clients /\ conn[c] = "open"
       /\ ~HasEvent(c, fanEv)
       /\ d \in clients /\ HasEvent(d, fanEv)

\* C7: the first message an observer receives is the leaderboard as it is
\* when the observer subscribes; no forwarded event and no update of another
\* observer's submission comes before it.
C7_SnapshotFirst ==
  /\ [](\A c \in Observers :
          received[c] # <<>> => received[c][1].src = "connect")
  /\ [][\A c \in Observers :
          (conn[c] = "new" /\ conn'[c] = "open")
            => received'[c] =
                 <<Msg("connect", 0, EvBoard(load_leaderboard(lbFile)))>>]_vars

\* an observer subscribed while a fan-out was under way and holds the
\* snapshot and nothing else; the forwarder has sends left to do
C7_Witness ==
  /\ fpc = "send" /\ fanLeft # {}
  /\ \E c \in clients \ fanSnap :
       /\ Len(received[c]) = 1
       /\ received[c][1].src = "connect"

====
